---- MODULE Spec2Model ----
(***************************************************************************)
(* The translation client src/server/websocket-client.py as a state        *)
(* machine.  One run of the script: print the port, open the connection,   *)
(* send one frame (file mode) or one frame per stdin line (stream mode),   *)
(* then read `count` responses and close.  The server side of the          *)
(* connection and the failures of the I/O calls are the environment: any   *)
(* I/O call may fail, and the server may go silent.                        *)
(***************************************************************************)
EXTENDS Integers, Sequences, FiniteSets, TLC

(* ------------------------------ bounds -------------------------------- *)
\* longest input (file content or stdin content), in characters
MaxLen == 3
\* most frames the server ever delivers in one run
MaxDeliver == 3

(* ----------------------------- characters ----------------------------- *)
\* 0xFF stands for a byte that is not valid UTF-8
BadByte == "0xFF"
Chars == {"a", " ", "\n", BadByte}
\* what unicode.strip() removes
Whitespace == {" ", "\n"}
\* frames a server that ignores the requests may deliver
Replies == {<<"x">>, <<"y">>}

\* -p/--port default
Port == 8080

SeqsUpTo(S, n) == UNION {[1..k -> S] : k \in 0..n}

(* --------------------------- pure functions --------------------------- *)
Digit == <<"0", "1", "2", "3", "4", "5", "6", "7", "8", "9">>

\* "%d" % n for n >= 0
RECURSIVE FormatD(_)
FormatD(n) ==
    IF n < 10 THEN <<Digit[n + 1]>>
    ELSE FormatD(n \div 10) \o <<Digit[(n % 10) + 1]>>

\* as regex.sub(r'\n', r'\\n', s, count=1): only the first newline
RECURSIVE EscapeFirstNewline(_)
EscapeFirstNewline(s) ==
    IF s = <<>> THEN <<>>
    ELSE IF Head(s) = "\n" THEN <<"\\", "n">> \o Tail(s)
    ELSE <<Head(s)>> \o EscapeFirstNewline(Tail(s))

\* regex.sub(r'\n', r'\\n', s): every newline becomes backslash, 'n'
RECURSIVE EscapeNewlines(_)
EscapeNewlines(s) ==
    IF s = <<>> THEN <<>>
    ELSE (IF Head(s) = "\n" THEN <<"\\", "n">> ELSE <<Head(s)>>)
         \o EscapeNewlines(Tail(s))

\* s.decode('utf8') succeeds (on success the characters are unchanged)
Decodable(s) == \A i \in 1..Len(s) : s[i] # BadByte

RECURSIVE LStrip(_)
LStrip(s) ==
    IF s # <<>> /\ Head(s) \in Whitespace THEN LStrip(Tail(s)) ELSE s

RECURSIVE RStrip(_)
RStrip(s) ==
    IF s # <<>> /\ s[Len(s)] \in Whitespace
    THEN RStrip(SubSeq(s, 1, Len(s) - 1)) ELSE s

\* as unicode.rstrip()
StripTrailingOnly(s) == RStrip(s)
\* unicode.strip(): whitespace removed at both ends
Strip(s) == LStrip(RStrip(s))

Open == "{ \"id\": "
Mid == ", \"text\": \""
End == "\"}"

\* '{ "id": %d, "text": "%s"}' % (count, text)
Payload(n, t) == <<Open>> \o FormatD(n) \o <<Mid>> \o t \o <<End>>

\* "PORT: %d" % args.port
PortLine == <<"PORT: ">> \o FormatD(Port)

\* the first line `for line in sys.stdin` yields from s: up to and
\* including the first newline, or all of s when it holds none
RECURSIVE FirstLine(_)
FirstLine(s) ==
    IF s = <<>> THEN <<>>
    ELSE IF Head(s) = "\n" THEN <<"\n">>
    ELSE <<Head(s)>> \o FirstLine(Tail(s))

RestAfter(s) == SubSeq(s, Len(FirstLine(s)) + 1, Len(s))

(* ------------------------------- state -------------------------------- *)
VARIABLES
    input,      \* the file's content (file mode) or all of stdin (stream mode)
    hasFile,    \* args.file is a file object (TRUE) or None (FALSE)
    server,     \* "echo": answers request k with its text; "any": arbitrary
    limit,      \* frames the server delivers before it goes silent
    pc,         \* the statement the script is at
    ws,         \* "none", "open" or "closed"
    count, text, payload, line, result,   \* the script's variables
    stdin,      \* the part of stdin not yet read
    exit,       \* the process's exit status, -1 while it runs
    log,        \* every print and connection call so far, in order
    inbox,      \* frames delivered by the server and not yet received
    delivered   \* every frame the server has delivered, in order

envvars == <<input, hasFile, server, limit>>
scriptvars == <<pc, ws, count, text, payload, line, result, stdin, exit, log>>
vars == <<input, hasFile, server, limit, pc, ws, count, text,
          payload, line, result, stdin, exit, log, inbox, delivered>>

Call(op, arg, ok) == [op |-> op, arg |-> arg, ok |-> ok]

OpsOf(ops) == SelectSeq(log, LAMBDA e : e.op \in ops)
Args(s) == [i \in 1..Len(s) |-> s[i].arg]

\* frames that went out on the connection, in send order
sent == Args(SelectSeq(log, LAMBDA e : e.op = "send" /\ e.ok))
\* what the script wrote to standard output, in order
stdout == Args(OpsOf({"print17", "print30", "print39"}))

Init ==
    /\ input \in SeqsUpTo(Chars, MaxLen)
    /\ hasFile \in BOOLEAN
    /\ server \in {"echo", "any"}
    /\ limit \in 0..MaxDeliver
    /\ pc = "print_port"
    /\ ws = "none"
    /\ count = 0
    /\ text = <<>>
    /\ payload = <<>>
    /\ line = <<>>
    /\ result = <<>>
    /\ stdin = IF hasFile THEN <<>> ELSE input
    /\ exit = -1
    /\ log = <<>>
    /\ inbox = <<>>
    /\ delivered = <<>>

RaiseSwallowed(op) ==
    /\ pc' = "loop"
    /\ exit' = exit
    /\ ws' = ws
    /\ log' = Append(log, Call(op, <<>>, FALSE))

RaiseWithCleanup(op) ==
    /\ pc' = "failed"
    /\ exit' = 1
    /\ ws' = IF ws = "open" THEN "closed" ELSE ws
    /\ log' = IF ws = "open"
              THEN log \o <<Call(op, <<>>, FALSE), Call("close", <<>>, TRUE)>>
              ELSE Append(log, Call(op, <<>>, FALSE))

\* an uncaught exception: traceback, exit status 1, nothing else runs
Raise(op) ==
    /\ pc' = "failed"
    /\ exit' = 1
    /\ ws' = ws
    /\ log' = Append(log, Call(op, <<>>, FALSE))

(* ------------------------------ the script ---------------------------- *)
\* line 17
PrintPort ==
    /\ pc = "print_port"
    /\ log' = Append(log, Call("print17", PortLine, TRUE))
    /\ pc' = "connect"
    /\ UNCHANGED <<ws, count, text, payload, line, result, stdin, exit>>
    /\ UNCHANGED <<envvars, inbox, delivered>>

\* lines 20-24
Connect ==
    /\ pc = "connect"
    /\ ws' = "open"
    /\ count' = 0
    /\ log' = Append(log, Call("connect", FormatD(Port), TRUE))
    /\ pc' = "branch"
    /\ UNCHANGED <<text, payload, line, result, stdin, exit>>
    /\ UNCHANGED <<envvars, inbox, delivered>>

ConnectFail ==
    /\ pc = "connect"
    /\ Raise("connect")
    /\ UNCHANGED <<count, text, payload, line, result, stdin>>
    /\ UNCHANGED <<envvars, inbox, delivered>>

\* line 26
Branch ==
    /\ pc = "branch"
    /\ pc' = IF hasFile THEN "file_read" ELSE "stream_next"
    /\ UNCHANGED <<ws, count, text, payload, line, result, stdin, log, exit>>
    /\ UNCHANGED <<envvars, inbox, delivered>>

\* lines 27-28
FileRead ==
    /\ pc = "file_read"
    /\ text' = EscapeNewlines(input)
    /\ count' = 1
    /\ pc' = "file_format"
    /\ UNCHANGED <<ws, payload, line, result, stdin, log, exit>>
    /\ UNCHANGED <<envvars, inbox, delivered>>

FileReadFail ==
    /\ pc = "file_read"
    /\ Raise("read")
    /\ UNCHANGED <<count, text, payload, line, result, stdin>>
    /\ UNCHANGED <<envvars, inbox, delivered>>

\* line 29
FileFormat ==
    /\ pc = "file_format"
    /\ IF Decodable(text)
       THEN /\ payload' = Payload(count, text)
            /\ pc' = "file_print"
            /\ UNCHANGED <<ws, exit, log>>
       ELSE /\ Raise("decode")
            /\ UNCHANGED payload
    /\ UNCHANGED <<count, text, line, result, stdin>>
    /\ UNCHANGED <<envvars, inbox, delivered>>

\* as line 30 left out
FilePrintNothing ==
    /\ pc = "file_print"
    /\ pc' = "file_send"
    /\ UNCHANGED <<ws, count, text, payload, line, result, stdin, exit, log>>
    /\ UNCHANGED <<envvars, inbox, delivered>>

\* line 30
FilePrint ==
    /\ pc = "file_print"
    /\ log' = Append(log, Call("print30", payload, TRUE))
    /\ pc' = "file_send"
    /\ UNCHANGED <<ws, count, text, payload, line, result, stdin, exit>>
    /\ UNCHANGED <<envvars, inbox, delivered>>

\* line 31
FileSend ==
    /\ pc = "file_send"
    /\ log' = Append(log, Call("send", Payload(count, text), TRUE))
    /\ pc' = "loop"
    /\ UNCHANGED <<ws, count, text, payload, line, result, stdin, exit>>
    /\ UNCHANGED <<envvars, inbox, delivered>>

FileSendFail ==
    /\ pc = "file_send"
    /\ Raise("send")
    /\ UNCHANGED <<count, text, payload, line, result, stdin>>
    /\ UNCHANGED <<envvars, inbox, delivered>>

\* line 33
StreamNext ==
    /\ pc = "stream_next"
    /\ IF stdin = <<>>
       THEN /\ pc' = "loop"
            /\ UNCHANGED <<line, stdin>>
       ELSE /\ line' = FirstLine(stdin)
            /\ stdin' = RestAfter(stdin)
            /\ pc' = "stream_send"
    /\ UNCHANGED <<ws, count, text, payload, result, log, exit>>
    /\ UNCHANGED <<envvars, inbox, delivered>>

\* as lines 34-35 with the two statements swapped: the id is the old count
StreamSendThenCount ==
    /\ pc = "stream_send"
    /\ count' = count + 1
    /\ IF Decodable(line)
       THEN /\ log' = Append(log, Call("send", Payload(count, Strip(line)), TRUE))
            /\ pc' = "stream_next"
            /\ UNCHANGED <<ws, exit>>
       ELSE Raise("decode")
    /\ UNCHANGED <<text, payload, line, result, stdin>>
    /\ UNCHANGED <<envvars, inbox, delivered>>

\* as lines 34-35 with the receive loop inside the for loop
StreamSendThenReceive ==
    /\ pc = "stream_send"
    /\ count' = count + 1
    /\ IF Decodable(line)
       THEN /\ log' = Append(log, Call("send", Payload(count', Strip(line)), TRUE))
            /\ pc' = "loop"
            /\ UNCHANGED <<ws, exit>>
       ELSE Raise("decode")
    /\ UNCHANGED <<text, payload, line, result, stdin>>
    /\ UNCHANGED <<envvars, inbox, delivered>>

\* lines 34-35
StreamSend ==
    /\ pc = "stream_send"
    /\ count' = count + 1
    /\ IF Decodable(line)
       THEN /\ log' = Append(log, Call("send", Payload(count', Strip(line)), TRUE))
            /\ pc' = "stream_next"
            /\ UNCHANGED <<ws, exit>>
       ELSE Raise("decode")
    /\ UNCHANGED <<text, payload, line, result, stdin>>
    /\ UNCHANGED <<envvars, inbox, delivered>>

StreamSendFail ==
    /\ pc = "stream_send"
    /\ Decodable(line)
    /\ count' = count + 1
    /\ Raise("send")
    /\ UNCHANGED <<text, payload, line, result, stdin>>
    /\ UNCHANGED <<envvars, inbox, delivered>>

\* as line 37 reading `while count > 1`
LoopTestOffByOne ==
    /\ pc = "loop"
    /\ pc' = IF count > 1 THEN "recv" ELSE "close"
    /\ UNCHANGED <<ws, count, text, payload, line, result, stdin, log, exit>>
    /\ UNCHANGED <<envvars, inbox, delivered>>

\* line 37
LoopTest ==
    /\ pc = "loop"
    /\ pc' = IF count # 0 THEN "recv" ELSE "close"
    /\ UNCHANGED <<ws, count, text, payload, line, result, stdin, log, exit>>
    /\ UNCHANGED <<envvars, inbox, delivered>>

\* as line 38 reading the newest frame instead of the oldest
RecvNewest ==
    /\ pc = "recv"
    /\ inbox # <<>>
    /\ result' = inbox[Len(inbox)]
    /\ inbox' = SubSeq(inbox, 1, Len(inbox) - 1)
    /\ log' = Append(log, Call("recv", inbox[Len(inbox)], TRUE))
    /\ pc' = "print_result"
    /\ UNCHANGED <<ws, count, text, payload, line, stdin, exit>>
    /\ UNCHANGED <<envvars, delivered>>

\* line 38: blocks until the connection has a frame
Recv ==
    /\ pc = "recv"
    /\ inbox # <<>>
    /\ result' = Head(inbox)
    /\ inbox' = Tail(inbox)
    /\ log' = Append(log, Call("recv", Head(inbox), TRUE))
    /\ pc' = "print_result"
    /\ UNCHANGED <<ws, count, text, payload, line, stdin, exit>>
    /\ UNCHANGED <<envvars, delivered>>

RecvFail ==
    /\ pc = "recv"
    /\ Raise("recv")
    /\ UNCHANGED <<count, text, payload, line, result, stdin>>
    /\ UNCHANGED <<envvars, inbox, delivered>>

\* as lines 39-40 with line 42 indented into the loop
PrintResultAndClose ==
    /\ pc = "print_result"
    /\ log' = log \o <<Call("print39", result, TRUE), Call("close", <<>>, TRUE)>>
    /\ count' = count - 1
    /\ ws' = "closed"
    /\ pc' = "loop"
    /\ UNCHANGED <<text, payload, line, result, stdin, exit>>
    /\ UNCHANGED <<envvars, inbox, delivered>>

\* lines 39-40
PrintResult ==
    /\ pc = "print_result"
    /\ log' = Append(log, Call("print39", result, TRUE))
    /\ count' = count - 1
    /\ pc' = "loop"
    /\ UNCHANGED <<ws, text, payload, line, result, stdin, exit>>
    /\ UNCHANGED <<envvars, inbox, delivered>>

\* line 42, then the script ends with exit status 0
Close ==
    /\ pc = "close"
    /\ ws' = "closed"
    /\ log' = Append(log, Call("close", <<>>, TRUE))
    /\ pc' = "done"
    /\ exit' = 0
    /\ UNCHANGED <<count, text, payload, line, result, stdin>>
    /\ UNCHANGED <<envvars, inbox, delivered>>

(* ------------------------------ the server ---------------------------- *)
\* the text a request frame carries: what stands between Mid and End
TextOf(f) ==
    LET m == CHOOSE i \in 1..Len(f) : f[i] = Mid
    IN  SubSeq(f, m + 1, Len(f) - 1)

\* the id a request frame carries: what stands between Open and Mid
IdOf(f) ==
    LET m == CHOOSE i \in 1..Len(f) : f[i] = Mid
    IN  SubSeq(f, 2, m - 1)

Deliver(f) ==
    /\ Len(delivered) < limit
    /\ ws = "open"
    /\ exit = -1
    /\ inbox' = Append(inbox, f)
    /\ delivered' = Append(delivered, f)
    /\ UNCHANGED <<envvars, scriptvars>>

\* answers the next unanswered request with that request's text
ServerEcho ==
    /\ server = "echo"
    /\ Len(delivered) < Len(sent)
    /\ Deliver(TextOf(sent[Len(delivered) + 1]))

\* delivers whatever it likes, whenever it likes
ServerAny ==
    /\ server = "any"
    /\ \E f \in Replies : Deliver(f)

ClientStep ==
    \/ PrintPort
    \/ Connect
    \/ Branch
    \/ FileRead
    \/ FileFormat
    \/ FilePrint
    \/ FileSend
    \/ StreamNext
    \/ StreamSend
    \/ LoopTest
    \/ Recv
    \/ PrintResult
    \/ Close

Failure ==
    \/ ConnectFail
    \/ FileReadFail
    \/ FileSendFail
    \/ StreamSendFail
    \/ RecvFail

ServerStep ==
    \/ ServerEcho
    \/ ServerAny

Next ==
    \/ ClientStep
    \/ Failure
    \/ ServerStep

Spec == Init /\ [][Next]_vars

\* the script keeps running and the server keeps answering while it may
LiveSpec == Spec /\ WF_vars(ClientStep) /\ WF_vars(ServerStep)

(* ---------------------- vocabulary of the properties ------------------ *)
Count(ops) == Len(OpsOf(ops))
\* responses read off the connection, and responses printed, in order
received == Args(SelectSeq(log, LAMBDA e : e.op = "recv" /\ e.ok))
printed == Args(OpsOf({"print39"}))
\* positions of the log holding a call of the connection
Attempts(op) == {i \in 1..Len(log) : log[i].op = op}
Failed == \E i \in 1..Len(log) : ~log[i].ok

Newlines(s) == Cardinality({i \in 1..Len(s) : s[i] = "\n"})
\* the number of lines of a text: its newlines, and one more for a last
\* line that has no newline
NumLines(s) ==
    Newlines(s) + (IF s # <<>> /\ s[Len(s)] # "\n" THEN 1 ELSE 0)
\* the k-th line of a text, its newline included
RECURSIVE LineAt(_, _)
LineAt(s, k) ==
    IF k = 1 THEN FirstLine(s) ELSE LineAt(RestAfter(s), k - 1)

\* input units of the run
Units == IF hasFile THEN 1 ELSE NumLines(input)

AllWhite(s, a, b) == \A i \in a..b : s[i] \in Whitespace
\* t is s without its trailing whitespace
IsRightStripped(t, s) ==
    /\ Len(t) <= Len(s)
    /\ t = SubSeq(s, 1, Len(t))
    /\ AllWhite(s, Len(t) + 1, Len(s))
    /\ t # <<>> => t[Len(t)] \notin Whitespace
\* t is s without its leading and its trailing whitespace
IsStripped(t, s) ==
    \E a \in 0..Len(s) :
        /\ AllWhite(s, 1, a)
        /\ IsRightStripped(t, SubSeq(s, a + 1, Len(s)))
        /\ t # <<>> => t[1] \notin Whitespace

\* t is s with each newline replaced by backslash, 'n' and nothing else
\* changed: character i of s stands in t after the i - 1 characters before
\* it, each newline among them taking two places
IsNewlineEscaped(t, s) ==
    /\ Len(t) = Len(s) + Newlines(s)
    /\ \A i \in 1..Len(s) :
          LET at == i + Newlines(SubSeq(s, 1, i - 1))
          IN  IF s[i] = "\n"
              THEN t[at] = "\\" /\ t[at + 1] = "n"
              ELSE t[at] = s[i]

(* -------------------------------- C1 ---------------------------------- *)
\* C1: in stream mode the k-th frame sent carries id k, never more frames
\* are sent or responses read than stdin has lines, and a run that ends
\* without a failure has sent exactly one frame per line of stdin and made
\* exactly that many receive calls (none of either for an empty stdin).
C1_StreamFramesAndReceives ==
    ~hasFile =>
        /\ \A k \in 1..Len(sent) : IdOf(sent[k]) = FormatD(k)
        /\ Len(sent) <= NumLines(input)
        /\ Count({"recv"}) <= Len(sent)
        /\ pc = "done" =>
              /\ Len(sent) = NumLines(input)
              /\ Count({"send"}) = NumLines(input)
              /\ Count({"recv"}) = NumLines(input)

C1_Witness ==
    /\ ~hasFile
    /\ pc = "done"
    /\ NumLines(input) >= 2
    /\ Len(sent) = NumLines(input)

(* -------------------------------- C2 ---------------------------------- *)
\* C2: in both modes no send is attempted after a receive was attempted,
\* and a receive is attempted only when every input unit has been sent.
C2_SendsBeforeReceives ==
    /\ \A i \in Attempts("recv") : \A j \in Attempts("send") : j < i
    /\ (pc = "recv" \/ Attempts("recv") # {}) =>
          /\ Len(sent) = Units
          /\ stdin = <<>>
          /\ pc \notin {"file_read", "file_format", "file_print",
                        "file_send", "stream_next", "stream_send"}

C2_Witness ==
    /\ Cardinality(Attempts("recv")) >= 2
    /\ Cardinality(Attempts("send")) >= 2

(* -------------------------------- C3 ---------------------------------- *)
\* C3: in file mode at most one frame is ever sent; it has id 1 and its
\* text is the file's content with every newline replaced by backslash,
\* 'n' and nothing else changed; a run that ends without a failure has
\* sent exactly that one frame and then made exactly one receive call.
C3_FileModeOneFrame ==
    hasFile =>
        /\ Len(sent) <= 1
        /\ Count({"recv"}) <= Len(sent)
        /\ \A k \in 1..Len(sent) :
              /\ IdOf(sent[k]) = <<"1">>
              /\ IsNewlineEscaped(TextOf(sent[k]), input)
        /\ pc = "done" =>
              /\ Len(sent) = 1
              /\ Count({"send"}) = 1
              /\ Count({"recv"}) = 1

C3_Witness ==
    /\ hasFile
    /\ pc = "done"
    /\ Newlines(input) >= 2
    /\ Len(input) = MaxLen

(* -------------------------------- C4 ---------------------------------- *)
\* C4: a call that failed is the last thing the run did (nothing is tried
\* again and nothing follows it), the process then ends with a non-zero
\* exit status, and after a failed connect the run holds no send and no
\* receive at all.
C4_FailureAborts ==
    /\ \A i \in 1..Len(log) :
          ~log[i].ok => i = Len(log) /\ pc = "failed"
    /\ pc = "failed" => Failed /\ exit # 0 /\ exit # -1
    /\ Failed => pc = "failed"
    /\ (\E i \in Attempts("connect") : ~log[i].ok) =>
          /\ Attempts("send") = {}
          /\ Attempts("recv") = {}
          /\ Cardinality(Attempts("connect")) = 1
          /\ ws = "none"

C4_Witness ==
    /\ pc = "failed"
    /\ log[Len(log)].op = "recv"
    /\ Len(received) >= 1
    /\ Len(sent) > Len(received)
    /\ inbox # <<>>

(* -------------------------------- C5 ---------------------------------- *)
\* C5: the i-th response printed is the i-th frame the connection
\* delivered, whatever ids are involved; so with a server that answers
\* every request, in send order, with that request's text, a finished run
\* has printed the texts it sent, in the order it sent them.
C5_ResponsesInDeliveryOrder ==
    /\ Len(printed) <= Len(delivered)
    /\ \A i \in 1..Len(printed) : printed[i] = delivered[i]
    /\ (server = "echo" /\ pc = "done") =>
          /\ Len(printed) = Len(sent)
          /\ \A k \in 1..Len(sent) : printed[k] = TextOf(sent[k])

C5_Witness ==
    /\ pc = "done"
    /\ Len(printed) >= 2
    /\ printed[1] # printed[2]

(* -------------------------------- C6 ---------------------------------- *)
\* the k-th frame sent was printed, as the k-th payload line, before it
\* went out
PrintedBeforeSent ==
    LET prints == {i \in 1..Len(log) : log[i].op = "print30"}
        sends == {i \in 1..Len(log) : log[i].op = "send" /\ log[i].ok}
        Nth(S, k) == CHOOSE i \in S : Cardinality({j \in S : j <= i}) = k
    IN  /\ Cardinality(sends) <= Cardinality(prints)
        /\ \A k \in 1..Cardinality(sends) :
              /\ Nth(prints, k) < Nth(sends, k)
              /\ log[Nth(prints, k)].arg = log[Nth(sends, k)].arg

\* the PORT line is on standard output before the connection is opened
PortBeforeConnect ==
    \A i \in Attempts("connect") :
        \E j \in 1..(i - 1) : log[j].op = "print17" /\ log[j].arg = PortLine

\* C6 as claimed: the PORT line is printed before the connection is
\* opened, and in file mode and in stream mode every payload is printed
\* before it is sent, as many payload lines as frames.
C6_Original ==
    /\ PortBeforeConnect
    /\ PrintedBeforeSent
    /\ pc = "done" => Count({"print30"}) = Len(sent)

\* C6 as amended: the PORT line is printed before the connection is
\* opened; in file mode the payload is printed before it is sent (one
\* payload line for the one frame of a finished run); in stream mode no
\* payload is ever printed: standard output holds the PORT line and the
\* responses only.
C6_PayloadPrintedInFileModeOnly ==
    /\ PortBeforeConnect
    /\ hasFile =>
          /\ PrintedBeforeSent
          /\ pc = "done" => Count({"print30"}) = Len(sent)
    /\ ~hasFile =>
          /\ Count({"print30"}) = 0
          /\ stdout = (IF Count({"print17"}) = 1 THEN <<PortLine>> ELSE <<>>)
                      \o printed

C6_Witness ==
    /\ ~hasFile
    /\ pc = "done"
    /\ Len(sent) >= 2
    /\ Len(stdout) = 1 + Len(sent)

(* -------------------------------- C8 ---------------------------------- *)
\* C8 as claimed: in stream mode the k-th frame's text is the k-th line of
\* stdin without its trailing whitespace, its leading characters kept.
C8_Original ==
    ~hasFile =>
        \A k \in 1..Len(sent) :
            IsRightStripped(TextOf(sent[k]), LineAt(input, k))

\* C8 as amended: in stream mode the k-th frame's text is the k-th line of
\* stdin without its leading and its trailing whitespace, nothing else
\* changed.
C8_TextIsLineStrippedAtBothEnds ==
    ~hasFile =>
        \A k \in 1..Len(sent) :
            IsStripped(TextOf(sent[k]), LineAt(input, k))

C8_Witness ==
    /\ ~hasFile
    /\ Len(sent) >= 1
    /\ LineAt(input, 1) = <<" ", "a", "\n">>
    /\ TextOf(sent[1]) = <<"a">>

(* -------------------------------- C7 ---------------------------------- *)
\* the phase of the lifecycle the script is in
Phase ==
    CASE pc \in {"print_port", "connect"} -> 0                  \* Idle
      [] pc = "branch" -> 1                                     \* Connected
      [] pc \in {"file_read", "file_format", "file_print",
                 "file_send", "stream_next", "stream_send"} -> 2 \* Sending
      [] pc \in {"loop", "recv", "print_result", "close"} -> 3  \* Receiving
      [] pc = "done" -> 4                                       \* Closed
      [] pc = "failed" -> 5                                     \* aborted

C7_State ==
    /\ Cardinality(Attempts("connect")) <= 1
    /\ Cardinality(Attempts("close")) <= 1
    /\ Phase \in 1..4 => Cardinality(Attempts("connect")) = 1
    /\ Phase = 0 => ws = "none"
    /\ Phase \in 1..3 => ws = "open"
    /\ Phase = 4 <=> ws = "closed"
    /\ ws = "closed" <=> Attempts("close") # {}
    /\ \A i \in Attempts("close") :
          /\ i = Len(log)
          /\ count = 0
          /\ Len(printed) = Len(sent)
          /\ Len(sent) = Units
          /\ Len(sent) > 0 => log[i - 1].op = "print39"
    /\ \A i \in Attempts("connect") : \A j \in 1..Len(log) :
          log[j].op \in {"send", "recv", "close"} => i < j

C7_Step ==
    /\ pc = "failed" => pc' = "failed"
    /\ pc' # "failed" => Phase' \in {Phase, Phase + 1}
    /\ pc = "done" => UNCHANGED scriptvars

\* C7: the script moves Idle, Connected, Sending, Receiving, Closed, one
\* phase at a time and never back (a failure leaves the sequence for
\* good); it opens at most one connection, exactly one once it is past
\* Idle; it closes the connection at most once, and only when the last of
\* the responses has been printed (at once when there is none to read);
\* nothing is sent or received after the close.
C7_LinearLifecycle == []C7_State /\ [][C7_Step]_vars

C7_Witness ==
    /\ pc = "done"
    /\ Len(printed) >= 2
    /\ log[Len(log)].op = "close"

(* -------------------------------- C9 ---------------------------------- *)
C9_State ==
    /\ count >= 0
    /\ pc \in {"loop", "recv", "close", "done"} =>
          count = Len(sent) - Len(received)
    \* between the receive and the decrement the frame just read is
    \* still counted
    /\ pc = "print_result" => count = Len(sent) - Len(received) + 1
    /\ Phase = 3 => count = Len(sent) - Len(printed)
    /\ ws = "closed" => count = 0 /\ Len(delivered) >= Len(sent)
    /\ Len(delivered) <= limit

C9_Step ==
    (Phase = 3 /\ count' # count) =>
        /\ count' = count - 1
        /\ Len(printed') = Len(printed) + 1
        /\ Len(received') = Len(received)

\* C9: in the receive phase the counter is the number of frames sent less
\* the number of responses handled; it goes down by one for each response
\* and is never negative.  When the server delivers at least one frame
\* for each request, the loop ends with the counter at zero and the
\* connection closed; when the server delivers fewer frames than there are
\* requests the script comes to block in a receive and stays there for
\* ever, the connection never closed.  The one other way out of the loop
\* is a receive that fails.
C9_CounterAndTermination ==
    /\ []C9_State
    /\ [][C9_Step]_vars
    /\ (pc = "loop" /\ limit >= Len(sent))
          ~> (\/ pc = "done" /\ count = 0 /\ ws = "closed"
              \/ pc = "failed" /\ log[Len(log)].op = "recv")
    /\ (pc = "loop" /\ limit < Len(sent))
          ~> (\/ [](pc = "recv" /\ inbox = <<>> /\ ws = "open")
              \/ pc = "failed" /\ log[Len(log)].op = "recv")

C9_Witness ==
    /\ pc = "recv"
    /\ inbox = <<>>
    /\ Len(sent) = 2
    /\ limit = 1
    /\ count = 1
    /\ Len(printed) = 1

(* -------------------------------- C10 --------------------------------- *)
\* C10: close is invoked only on the fully successful path: when it has
\* been invoked no call has failed, every unit was sent and as many
\* responses were read.  A run ended by a failure has not invoked close:
\* when a send or a receive failed the connection is still open and fewer
\* responses were read than requests were counted.  A run in which every
\* send and every one of the count receives succeeded is at its close.
C10_CloseOnlyOnSuccess ==
    /\ Attempts("close") # {} =>
          /\ ~Failed
          /\ pc = "done"
          /\ Len(sent) = Units
          /\ Len(received) = Units
    /\ pc = "failed" =>
          /\ Attempts("close") = {}
          /\ ws # "closed"
          /\ log[Len(log)].op \in {"send", "recv"} =>
                /\ ws = "open"
                /\ Len(received) < count + Len(printed)
    /\ (~Failed /\ Phase \in 3..4 /\ Len(printed) = Len(sent)) =>
          pc \in {"loop", "close", "done"}
    /\ pc = "done" <=> Attempts("close") # {}

C10_Witness ==
    /\ pc = "failed"
    /\ ws = "open"
    /\ log[Len(log)].op = "recv"
    /\ Len(received) >= 1
    /\ Attempts("close") = {}

====
